---- MODULE Spec2Model ----
(***************************************************************************)
(* Model of the sales-automation client (React Native).                    *)
(*                                                                         *)
(*   - operator flow: App search result -> ProductFormScreen (derived      *)
(*     resale price) with its CameraCapture component;                     *)
(*   - management flow: VendedorScreen (listing search/filter, status      *)
(*     transitions, deletion) running against the remote listing store.    *)
(*                                                                         *)
(* Money is kept in integers: a source price is a number of cents, and a   *)
(* derived price is a number of tenths of a cent, so that the factors 0.5  *)
(* and 0.6 of the code are the exact integer factors 5 and 6.              *)
(***************************************************************************)
EXTENDS Integers, Sequences, FiniteSets, TLC

(***************************************************************************)
(* Bounds of the model                                                     *)
(***************************************************************************)
\* source prices 0..MaxPriceCents are enumerated next to the sampled ones
MaxPriceCents == 120
\* assets the camera and the gallery hand out in one run of the capture component
MaxAssets == 7
\* assets one gallery selection can return
MaxPick == 3
\* alerts and pickers of the capture component that can be open at once
MaxPending == 2
\* calls of the management clients that can await their response at once
MaxInFlight == 2
\* photo urls of the listing whose photos are downloaded
MaxUrls == 3
\* calls of uploadProduct that can await their response at once
MaxUploads == 2
\* AsyncStorage calls that can await their completion at once
MaxStorageOps == 2
\* process restarts in one run
MaxRestarts == 1

(***************************************************************************)
(* Program constants                                                       *)
(***************************************************************************)
\* `amazonPrice < 250`, in cents
Threshold == 25000
\* <CameraCapture maxPhotos={6} .../>
MaxPhotos == 6

\* prices a scraped product can carry (AmazonProduct.price: number | null)
PriceSamples == {-100, 24999, 25000, 25001, 109900}
Prices == (0..MaxPriceCents) \cup PriceSamples

\* AmazonProduct, reduced to its price: hasPrice = FALSE stands for price: null
AmazonProduct ==
  [hasPrice : {TRUE}, price : Prices] \cup [hasPrice : {FALSE}, price : {0}]

VARIABLES
  \* ---- App (operator flow) ----
  productResult,    \* App.productResult: <<>> (null) or <<product>>
  currentScreen,    \* App.currentScreen
  \* ---- ProductFormScreen ----
  amazonPrice,      \* amazonData.price handed to the form (cents)
  wallapopPrice,    \* const wallapopPrice (tenths of a cent)
  savings,          \* const savings (tenths of a cent)
  formPhotos,       \* ProductFormScreen.photos (set through onPhotosChange)
  \* ---- CameraCapture ----
  photos,           \* CameraCapture.photos: sequence of asset ids
  pending,          \* open alerts / pickers, each with the closure it captured
  camAlert,         \* title of the last plain alert the component raised
  nextAsset,        \* id of the next asset a picker produces
  pickerHonoursLimit, \* platform: the gallery enforces selectionLimit
  \* ---- remote listing store ----
  store,            \* listing -> status held by the remote store, or "deleted"
  \* ---- VendedorScreen, one per management client ----
  mounted,          \* the clients whose management screen is running
  products,         \* products: listing -> displayed status, "none" if not listed
  totalProducts,
  selectedProduct,  \* <<>> (null) or <<copy of the list item>>
  isLoading,
  isRefreshing,
  searchText,
  dateFrom,
  dateTo,
  showFilters,
  vendAlert,        \* the alert on top of the screen, "none" once dismissed
  deleteDialog,     \* <<>> or <<the open "Confirmar eliminacion" prompt>>
  net,              \* per client, the calls awaiting their response, oldest first
  soldDone,         \* history: the listings this client has successfully marked sold
  lastApplied,      \* history: the filter of the last search the user applied
  staleShown,       \* history: the list on display was overwritten by an older request
  \* ---- VendedorScreen.downloadAllPhotos ----
  platform,         \* Platform.OS and Platform.Version of the device
  batch,            \* the running (or last) call of downloadAllPhotos
  \* ---- ProductFormScreen (submit) ----
  defects,          \* the text of the defects field
  isUploading,
  formAlert,        \* the last plain alert of the form, with the response behind it
  submitDialog,     \* open "Confirmar" alerts, each with the closure it captured
  upload,           \* calls of uploadProduct awaiting their response
  \* ---- App (session) ----
  userRole,         \* App.userRole, "none" for null
  username,         \* App.username, "none" for ''
  isRestoringSession,
  storage,          \* what AsyncStorage holds under 'userSession'
  storageOps,       \* setItem / removeItem calls awaiting their completion, oldest first
  login,            \* LoginScreen: "idle", or "sent" while /auth/login is awaited
  lastSessionCall,  \* history: the last of handleLogin / handleLogout that ran
  restarts,         \* history: process restarts so far
  \* ---- App (backend health) ----
  backendStatus,    \* App.backendStatus
  probe,            \* checkHealth: "sent" while awaited, "done" after
  serverUp          \* environment: the backend answers requests

pricingVars == <<productResult, currentScreen, amazonPrice, wallapopPrice, savings>>
cameraVars == <<formPhotos, photos, pending, camAlert, nextAsset, pickerHonoursLimit>>

storeVars == <<store>>
listVars == <<products, totalProducts, selectedProduct, isLoading, isRefreshing,
              deleteDialog, net, staleShown, soldDone>>
screenVars == <<listVars, vendAlert>>
filterVars == <<searchText, dateFrom, dateTo, showFilters, lastApplied>>
vendedorVars == <<mounted, storeVars, screenVars, filterVars>>

downloadVars == <<platform, batch>>
submitVars == <<defects, isUploading, formAlert, submitDialog, upload>>
appVars == <<userRole, username, isRestoringSession, storage, storageOps, login,
             lastSessionCall, restarts, backendStatus, probe, serverUp>>
restVars == <<downloadVars, submitVars, appVars>>

vars == <<pricingVars, cameraVars, vendedorVars, restVars>>

(***************************************************************************)
(* App: what the render shows.  The session is the pair userRole /         *)
(* username; the value persisted under 'userSession' is a record           *)
(*   kind  "missing" (getItem gives null), "unreadable" (getItem rejects), *)
(*         "unparseable" (JSON.parse throws), "json"                       *)
(*   role, username  the fields of the parsed object, "none" when absent   *)
(***************************************************************************)
Roles == {"operario", "vendedor"}
Usernames == {"ana"}

NoSession == [kind |-> "missing", role |-> "none", username |-> "none"]

\* JSON.stringify({ role, username: user })
StoredSession(role, user) == [kind |-> "json", role |-> role, username |-> user]

\* the early returns of App's render, in their order
ShownScreen ==
  IF isRestoringSession THEN "loading"
  ELSE IF currentScreen = "login" THEN "login"
  ELSE IF userRole = "vendedor" THEN "vendedor"
  ELSE IF currentScreen = "form" /\ productResult # <<>> THEN "form"
  ELSE "search"

\* the text search: the input is editable={!isSearching && backendStatus === 'online'}
SearchEnabled == backendStatus = "online"

\* the app of a user who logged in as `role`, the backend reachable
SessionOf(role) ==
  /\ userRole = role
  /\ username = "ana"
  /\ isRestoringSession = FALSE
  /\ storage = StoredSession(role, "ana")
  /\ storageOps = <<>>
  /\ login = "idle"
  /\ lastSessionCall = "login"
  /\ restarts = 0
  /\ backendStatus = "online"
  /\ probe = "done"
  /\ serverUp = TRUE

(***************************************************************************)
(* Pricing (ProductFormScreen.calculateWallapopPrice)                      *)
(***************************************************************************)
calculateWallapopPriceInclusive(p) ==
  IF p <= Threshold THEN p * 5 ELSE p * 6

\* amazonPrice * 0.5 below the threshold, amazonPrice * 0.6 otherwise
calculateWallapopPrice(p) ==
  IF p < Threshold THEN p * 5 ELSE p * 6

\* `productResult.price || 0`: null and 0 are falsy
PriceOrZero(product) ==
  IF ~product.hasPrice \/ product.price = 0 THEN 0 ELSE product.price

\* App.handleSearch: the result is cleared, then set from the response
HandleSearchAmong(found) ==
  /\ ShownScreen = "search"
  /\ SearchEnabled
  /\ \/ \E product \in found : productResult' = <<product>>
     \/ productResult' = <<>>
  /\ UNCHANGED <<currentScreen, amazonPrice, wallapopPrice, savings, cameraVars, vendedorVars, restVars>>

HandleSearch == HandleSearchAmong(AmazonProduct)

\* App.handleContinueToForm followed by the first render of the form
HandleContinueToForm ==
  /\ ShownScreen = "search"
  /\ productResult # <<>>
  /\ currentScreen' = "form"
  /\ amazonPrice' = PriceOrZero(productResult[1])
  /\ wallapopPrice' = calculateWallapopPrice(amazonPrice')
  /\ savings' = amazonPrice' * 10 - wallapopPrice'
  /\ UNCHANGED <<productResult, cameraVars, vendedorVars, restVars>>


(***************************************************************************)
(* CameraCapture                                                           *)
(*                                                                         *)
(* Every handler is a closure of the render it was created in: an alert or *)
(* a picker opened by a handler keeps the `photos` of that render, and its *)
(* callback computes the new sequence from that captured value.  An entry  *)
(* of `pending` is such an open alert or picker:                           *)
(*   kind   "choose" (camera / gallery / cancel), "camera", "gallery",     *)
(*          "remove" (confirmation of removePhoto)                         *)
(*   photos the captured sequence                                          *)
(*   index  the captured position of removePhoto (1-based here, the code   *)
(*          counts from 0), 0 otherwise                                    *)
(*   limit  selectionLimit handed to the gallery, 0 otherwise              *)
(*                                                                         *)
(* The alerts and the pickers are native and modal.  A picker covers the   *)
(* screen: until its callback has run nothing else of the component can be *)
(* pressed.  An alert blocks the buttons under it once it is displayed, so *)
(* a button handler runs under a pending alert only when that alert was    *)
(* raised from the render still on screen (two presses in a row).          *)
(***************************************************************************)
PickerOpen == \E i \in 1..Len(pending) : pending[i].kind \in {"camera", "gallery"}

ButtonsPressable ==
  /\ ~PickerOpen
  /\ \A i \in 1..Len(pending) : pending[i].photos = photos
  /\ submitDialog = <<>>
Dialog(kind, captured, index, limit) ==
  [kind |-> kind, photos |-> captured, index |-> index, limit |-> limit]

RemoveAt(seq, i) == SubSeq(seq, 1, i - 1) \o SubSeq(seq, i + 1, Len(seq))

\* ids nextAsset .. nextAsset + k - 1, in order
NewAssets(k) == [j \in 1..k |-> nextAsset + j - 1]

\* setPhotos(newPhotos); onPhotosChange(newPhotos)
SetPhotos(newPhotos) ==
  /\ photos' = newPhotos
  /\ formPhotos' = newPhotos

\* `photos.length >= maxPhotos` of handleTakePhoto
LimitReached(captured) == Len(captured) >= MaxPhotos

\* handleTakePhoto, pressed on the "add" button, which is rendered only
\* while photos.length < maxPhotos
HandleTakePhoto ==
  /\ currentScreen = "form"
  /\ ButtonsPressable
  /\ Len(photos) < MaxPhotos
  /\ Len(pending) < MaxPending
  /\ IF LimitReached(photos)
       THEN /\ camAlert' = "Limite alcanzado"
            /\ UNCHANGED pending
       ELSE /\ pending' = Append(pending, Dialog("choose", photos, 0, 0))
            /\ UNCHANGED camAlert
  /\ UNCHANGED <<restVars, pricingVars, vendedorVars, formPhotos, photos, nextAsset, pickerHonoursLimit>>

\* selectionLimit: maxPhotos - photos.length
SelectionLimit(captured) == MaxPhotos - Len(captured)

\* the answer to the "Seleccionar imagen" alert: openCamera, openGallery or cancel
ChooseSource(i) ==
  /\ i \in 1..Len(pending)
  /\ pending[i].kind = "choose"
  /\ ~PickerOpen
  /\ \/ pending' = [pending EXCEPT ![i] = Dialog("camera", pending[i].photos, 0, 0)]
     \/ pending' = [pending EXCEPT ![i] =
                      Dialog("gallery", pending[i].photos, 0, SelectionLimit(pending[i].photos))]
     \/ pending' = RemoveAt(pending, i)
  /\ UNCHANGED <<restVars, pricingVars, vendedorVars, formPhotos, photos, camAlert, nextAsset, pickerHonoursLimit>>

\* the callback of launchCamera: cancelled, failed, or one asset
CameraResponse(i) ==
  /\ i \in 1..Len(pending)
  /\ pending[i].kind = "camera"
  /\ pending' = RemoveAt(pending, i)
  /\ \/ UNCHANGED <<formPhotos, photos, camAlert, nextAsset>>
     \/ /\ camAlert' = "Error"
        /\ UNCHANGED <<formPhotos, photos, nextAsset>>
     \/ /\ nextAsset <= MaxAssets
        /\ SetPhotos(pending[i].photos \o NewAssets(1))
        /\ nextAsset' = nextAsset + 1
        /\ UNCHANGED camAlert
  /\ UNCHANGED <<restVars, pricingVars, vendedorVars, pickerHonoursLimit>>

\* the callback of launchImageLibrary: cancelled, failed, or k >= 1 assets,
\* all of which are appended.  selectionLimit is an option of the platform's
\* picker: a limit of 1 selects single-selection everywhere, a larger limit
\* is enforced only by the pickers that support one (pickerHonoursLimit)
GalleryResponse(i) ==
  /\ i \in 1..Len(pending)
  /\ pending[i].kind = "gallery"
  /\ pending' = RemoveAt(pending, i)
  /\ \/ UNCHANGED <<formPhotos, photos, camAlert, nextAsset>>
     \/ /\ camAlert' = "Error"
        /\ UNCHANGED <<formPhotos, photos, nextAsset>>
     \/ \E k \in 1..MaxPick :
          /\ (pickerHonoursLimit \/ pending[i].limit = 1) => k <= pending[i].limit
          /\ nextAsset + k - 1 <= MaxAssets
          /\ SetPhotos(pending[i].photos \o NewAssets(k))
          /\ nextAsset' = nextAsset + k
          /\ UNCHANGED camAlert
  /\ UNCHANGED <<restVars, pricingVars, vendedorVars, pickerHonoursLimit>>

\* removePhoto(index), pressed on the remove button of a rendered photo
RemovePhoto(index) ==
  /\ currentScreen = "form"
  /\ ButtonsPressable
  /\ index \in 1..Len(photos)
  /\ Len(pending) < MaxPending
  /\ pending' = Append(pending, Dialog("remove", photos, index, 0))
  /\ UNCHANGED <<restVars, pricingVars, vendedorVars, formPhotos, photos, camAlert, nextAsset, pickerHonoursLimit>>

FilterOutLast(captured, index) == SubSeq(captured, 1, Len(captured) - 1)

\* photos.filter((_, i) => i !== index) on the captured sequence
FilterOut(captured, index) == RemoveAt(captured, index)

\* the answer to the "Eliminar foto" alert
AnswerRemove(i) ==
  /\ i \in 1..Len(pending)
  /\ pending[i].kind = "remove"
  /\ ~PickerOpen
  /\ pending' = RemoveAt(pending, i)
  /\ \/ UNCHANGED <<formPhotos, photos>>
     \/ SetPhotos(FilterOut(pending[i].photos, pending[i].index))
  /\ UNCHANGED <<restVars, pricingVars, vendedorVars, camAlert, nextAsset, pickerHonoursLimit>>

CameraInit ==
  /\ formPhotos = <<>>
  /\ photos = <<>>
  /\ pending = <<>>
  /\ camAlert = "none"
  /\ nextAsset = 1
  /\ pickerHonoursLimit \in BOOLEAN

CameraNext ==
  \/ HandleTakePhoto
  \/ \E i \in 1..MaxPending : ChooseSource(i)
  \/ \E i \in 1..MaxPending : CameraResponse(i)
  \/ \E i \in 1..MaxPending : GalleryResponse(i)
  \/ \E index \in 1..(MaxPhotos + MaxPick) : RemovePhoto(index)
  \/ \E i \in 1..MaxPending : AnswerRemove(i)

(***************************************************************************)
(* Strings are sequences of one-character strings.                         *)
(***************************************************************************)
IsSpace(ch) == ch = " "

RECURSIVE TrimStart(_)
TrimStart(s) == IF s # <<>> /\ IsSpace(Head(s)) THEN TrimStart(Tail(s)) ELSE s

RECURSIVE TrimEnd(_)
TrimEnd(s) ==
  IF s # <<>> /\ IsSpace(s[Len(s)]) THEN TrimEnd(SubSeq(s, 1, Len(s) - 1)) ELSE s

\* String.prototype.trim
Trim(s) == TrimEnd(TrimStart(s))

\* the characters encodeURIComponent leaves as they are (those the model uses)
Unreserved == {"a", "b", "0", "1", "2", "4", "5", "-"}

\* the UTF-8 byte of a reserved character, in hexadecimal
HexCode(ch) ==
  CASE ch = " " -> <<"2", "0">>
    [] ch = "%" -> <<"2", "5">>
    [] ch = "&" -> <<"2", "6">>
    [] ch = "=" -> <<"3", "D">>

RECURSIVE encodeURIComponent(_)
encodeURIComponent(s) ==
  IF s = <<>> THEN <<>>
  ELSE (IF Head(s) \in Unreserved THEN <<Head(s)>> ELSE <<"%">> \o HexCode(Head(s)))
       \o encodeURIComponent(Tail(s))

(***************************************************************************)
(* VendedorScreen.fetchProducts: the query of the list request.  A url is  *)
(* kept from the "?" on: what precedes it, `${BASE_URL}/products?`, is the *)
(* same in every request.                                                  *)
(***************************************************************************)
LimitParam == <<"l", "i", "m", "i", "t", "=", "5", "0">>
SearchParam == <<"&", "s", "e", "a", "r", "c", "h", "=">>
DateFromParam == <<"&", "d", "a", "t", "e", "_", "f", "r", "o", "m", "=">>
DateToParam == <<"&", "d", "a", "t", "e", "_", "t", "o", "=">>

Filter(text, from, to) == [searchText |-> text, dateFrom |-> from, dateTo |-> to]

BuildUrlUntrimmed(filter) ==
  LimitParam
  \o (IF Trim(filter.searchText) # <<>>
        THEN SearchParam \o encodeURIComponent(filter.searchText) ELSE <<>>)
  \o (IF filter.dateFrom # <<>> THEN DateFromParam \o filter.dateFrom ELSE <<>>)
  \o (IF filter.dateTo # <<>> THEN DateToParam \o filter.dateTo ELSE <<>>)

BuildUrl(filter) ==
  LimitParam
  \o (IF Trim(filter.searchText) # <<>>
        THEN SearchParam \o encodeURIComponent(Trim(filter.searchText)) ELSE <<>>)
  \o (IF filter.dateFrom # <<>> THEN DateFromParam \o filter.dateFrom ELSE <<>>)
  \o (IF filter.dateTo # <<>> THEN DateToParam \o filter.dateTo ELSE <<>>)

(***************************************************************************)
(* The query string as its receiver reads it: parameters separated by "&", *)
(* name and value separated by the first "=", values percent-decoded.      *)
(***************************************************************************)
FirstIndex(s, ch) ==
  IF \E i \in 1..Len(s) : s[i] = ch
    THEN CHOOSE i \in 1..Len(s) : s[i] = ch /\ \A j \in 1..(i - 1) : s[j] # ch
    ELSE 0

RECURSIVE SplitOn(_, _)
SplitOn(s, sep) ==
  LET i == FirstIndex(s, sep)
  IN  IF i = 0 THEN <<s>>
      ELSE <<SubSeq(s, 1, i - 1)>> \o SplitOn(SubSeq(s, i + 1, Len(s)), sep)

NameValue(part) ==
  LET i == FirstIndex(part, "=")
  IN  IF i = 0 THEN <<part, <<>>>>
      ELSE <<SubSeq(part, 1, i - 1), SubSeq(part, i + 1, Len(part))>>

\* the sequence of <<name, raw value>> pairs of a query string
ParseQuery(query) ==
  LET parts == SplitOn(query, "&")
  IN  [i \in 1..Len(parts) |-> NameValue(parts[i])]

CharOfHex(h) ==
  CASE h = <<"2", "0">> -> " "
    [] h = <<"2", "5">> -> "%"
    [] h = <<"2", "6">> -> "&"
    [] h = <<"3", "D">> -> "="
    [] OTHER -> "?"

RECURSIVE decodeURIComponent(_)
decodeURIComponent(s) ==
  IF s = <<>> THEN <<>>
  ELSE IF Head(s) = "%" /\ Len(s) >= 3
    THEN <<CharOfHex(SubSeq(s, 2, 3))>> \o decodeURIComponent(SubSeq(s, 4, Len(s)))
    ELSE <<Head(s)>> \o decodeURIComponent(Tail(s))

\* what the search field and the two date fields can hold
SearchTexts ==
  {<<>>, <<" ">>, <<" ", "a", "&", "b", " ">>}
DateA == <<"2", "0", "2", "4", "-", "0", "1", "-", "0", "5">>
\* the date fields are plain text inputs: anything can be typed
FreeText == <<"1", "&", "a", "=", "b">>

(***************************************************************************)
(* The remote listing store and its HTTP interface.  The backend is not    *)
(* part of the client sources: its three handlers follow the interface the *)
(* client relies on (GET /products, PATCH /products/{id}/status with form  *)
(* field status, DELETE /products/{id}), an update or a delete requiring   *)
(* only that the listing exists, the last write winning.                   *)
(***************************************************************************)
Clients == {"c1", "c2"}
Listings == {"p1"}
Statuses == {"en_analisis", "revisado", "publicado", "vendido"}

EmptyFilter == Filter(<<>>, <<>>, <<>>)
NoProducts == [l \in Listings |-> "none"]
NoResponse == [result |-> "none", products |-> NoProducts, total |-> 0, detail |-> "none"]

\* a call awaiting its response, with what its continuation has captured
ListRequest(filter, refresh) ==
  [kind |-> "list", url |-> BuildUrl(filter), refresh |-> refresh, product |-> "none",
   status |-> "none", filter |-> filter, phase |-> "sent", resp |-> NoResponse,
   superseded |-> FALSE]

PatchRequest(productId, status, filter) ==
  [kind |-> "patch", url |-> <<>>, refresh |-> FALSE, product |-> productId,
   status |-> status, filter |-> filter, phase |-> "sent", resp |-> NoResponse,
   superseded |-> FALSE]

DeleteRequest(productId, filter) ==
  [kind |-> "delete", url |-> <<>>, refresh |-> FALSE, product |-> productId,
   status |-> "none", filter |-> filter, phase |-> "sent", resp |-> NoResponse,
   superseded |-> FALSE]

\* the calls of all clients that await their response
Outstanding == Len(net["c1"]) + Len(net["c2"])

\* GET /products -> {success, products, total}
ListingsOf(st) == [l \in Listings |-> IF st[l] = "deleted" THEN "none" ELSE st[l]]
CountOf(st) == Cardinality({l \in Listings : st[l] # "deleted"})

Answered(req, resp) == [req EXCEPT !.phase = "answered", !.resp = resp]

\* the backend moves a new listing from "en analisis" to "revisado"
ReviewDone(l) ==
  /\ store[l] = "en_analisis"
  /\ store' = [store EXCEPT ![l] = "revisado"]
  /\ UNCHANGED <<restVars, pricingVars, cameraVars, mounted, screenVars, filterVars>>

ListingAssumed(productId) == productId \in Listings

\* an update or a delete requires the target listing to exist at present
ListingExists(productId) == productId \in Listings /\ store[productId] # "deleted"

\* the store serves the i-th outstanding call of client c
ServerAnswer(c, i) ==
  /\ i \in 1..Len(net[c])
  /\ net[c][i].phase = "sent"
  /\ LET req == net[c][i]
         exists == ListingExists(req.product)
         ok == [NoResponse EXCEPT !.result = "success"]
         notFound == [NoResponse EXCEPT !.result = "failure", !.detail = "not_found"]
     IN  CASE req.kind = "list" ->
                /\ net' = [net EXCEPT ![c][i] =
                     Answered(req, [ok EXCEPT !.products = ListingsOf(store),
                                              !.total = CountOf(store)])]
                /\ UNCHANGED store
           [] req.kind = "patch" ->
                IF exists
                  THEN /\ store' = [store EXCEPT ![req.product] = req.status]
                       /\ net' = [net EXCEPT ![c][i] = Answered(req, ok)]
                  ELSE /\ net' = [net EXCEPT ![c][i] = Answered(req, notFound)]
                       /\ UNCHANGED store
           [] req.kind = "delete" ->
                IF exists
                  THEN /\ store' = [store EXCEPT ![req.product] = "deleted"]
                       /\ net' = [net EXCEPT ![c][i] = Answered(req, ok)]
                  ELSE /\ net' = [net EXCEPT ![c][i] = Answered(req, notFound)]
                       /\ UNCHANGED store
  /\ UNCHANGED <<restVars, pricingVars, cameraVars, mounted, products, totalProducts, selectedProduct,
                 isLoading, isRefreshing, vendAlert, deleteDialog, staleShown, soldDone, filterVars>>

\* the store answers the call with an error body and changes nothing
ServerError(c, i) ==
  /\ i \in 1..Len(net[c])
  /\ net[c][i].phase = "sent"
  /\ net' = [net EXCEPT ![c][i] =
               Answered(net[c][i], [NoResponse EXCEPT !.result = "failure"])]
  /\ UNCHANGED <<restVars, pricingVars, cameraVars, mounted, store, products, totalProducts,
                 selectedProduct, isLoading, isRefreshing, vendAlert, deleteDialog,
                 staleShown, soldDone, filterVars>>

(***************************************************************************)
(* VendedorScreen                                                          *)
(***************************************************************************)
CurrentFilter(c) == Filter(searchText[c], dateFrom[c], dateTo[c])

\* what covers what: the confirmation prompt is modal, the detail modal
\* covers the screen, the list is replaced by a spinner while isLoading
PromptOpen(c) == deleteDialog[c] # <<>>
ModalOpen(c) == selectedProduct[c] # <<>>
ListVisible(c) == c \in mounted /\ ~PromptOpen(c) /\ ~ModalOpen(c) /\ ~isLoading[c]
SearchBarVisible(c) == c \in mounted /\ ~PromptOpen(c) /\ ~ModalOpen(c)
ModalVisible(c) == c \in mounted /\ ~PromptOpen(c) /\ ModalOpen(c)

Listed(c) == {l \in Listings : products[c][l] # "none"}

\* renderProductItem: {item.status === 'publicado' && <Marcar vendido>}
QuickActions(c) ==
  IF ListVisible(c)
    THEN {<<l, "vendido">> : l \in {x \in Listed(c) : products[c][x] = "publicado"}}
    ELSE {}

ModalActionsAnyStatus(c) ==
  IF ModalVisible(c)
    THEN {<<selectedProduct[c][1].product_id, "publicado">>,
          <<selectedProduct[c][1].product_id, "vendido">>}
    ELSE {}

\* renderProductModal: 'revisado' -> <Marcar como publicado>,
\*                     'publicado' -> <Marcar como vendido>
ModalActions(c) ==
  IF ModalVisible(c)
    THEN (IF selectedProduct[c][1].status = "revisado"
            THEN {<<selectedProduct[c][1].product_id, "publicado">>} ELSE {})
         \cup
         (IF selectedProduct[c][1].status = "publicado"
            THEN {<<selectedProduct[c][1].product_id, "vendido">>} ELSE {})
    ELSE {}

OfferedTransitions(c) == QuickActions(c) \cup ModalActions(c)

DeleteOfferedUnlessSold(c) ==
  (IF ListVisible(c) THEN {l \in Listed(c) : products[c][l] # "vendido"} ELSE {})
  \cup (IF ModalVisible(c) /\ selectedProduct[c][1].status # "vendido"
          THEN {selectedProduct[c][1].product_id} ELSE {})

\* the delete button of every list item and of the detail modal
DeleteOffered(c) ==
  (IF ListVisible(c) THEN Listed(c) ELSE {})
  \cup (IF ModalVisible(c) THEN {selectedProduct[c][1].product_id} ELSE {})

FetchProductsSkipped(c, refresh, filter, outstanding) ==
  /\ net' = [net EXCEPT ![c] = outstanding]
  /\ UNCHANGED <<isLoading, isRefreshing>>

\* fetchProducts(refresh) as called from a closure holding `filter`:
\* the flag, then the request
FetchProducts(c, refresh, filter, outstanding) ==
  /\ IF refresh
       THEN isRefreshing' = [isRefreshing EXCEPT ![c] = TRUE] /\ UNCHANGED isLoading
       ELSE isLoading' = [isLoading EXCEPT ![c] = TRUE] /\ UNCHANGED isRefreshing
  /\ net' = [net EXCEPT ![c] = Append(outstanding, ListRequest(filter, refresh))]

\* an alert is modal: a press on the screen comes after its "OK"
DismissAlert(c) == vendAlert' = [vendAlert EXCEPT ![c] = "none"]

\* onChangeText of the three inputs
SetSearchText(c, text) ==
  /\ SearchBarVisible(c)
  /\ text # searchText[c]
  /\ searchText' = [searchText EXCEPT ![c] = text]
  /\ DismissAlert(c)
  /\ UNCHANGED <<restVars, pricingVars, cameraVars, mounted, storeVars, listVars,
                 dateFrom, dateTo, showFilters, lastApplied>>

SetDateFrom(c, date) ==
  /\ SearchBarVisible(c) /\ showFilters[c]
  /\ date # dateFrom[c]
  /\ dateFrom' = [dateFrom EXCEPT ![c] = date]
  /\ DismissAlert(c)
  /\ UNCHANGED <<restVars, pricingVars, cameraVars, mounted, storeVars, listVars,
                 searchText, dateTo, showFilters, lastApplied>>

SetDateTo(c, date) ==
  /\ SearchBarVisible(c) /\ showFilters[c]
  /\ date # dateTo[c]
  /\ dateTo' = [dateTo EXCEPT ![c] = date]
  /\ DismissAlert(c)
  /\ UNCHANGED <<restVars, pricingVars, cameraVars, mounted, storeVars, listVars,
                 searchText, dateFrom, showFilters, lastApplied>>

\* the "Filtros" button
ToggleFilters(c) ==
  /\ SearchBarVisible(c)
  /\ showFilters' = [showFilters EXCEPT ![c] = ~showFilters[c]]
  /\ DismissAlert(c)
  /\ UNCHANGED <<restVars, pricingVars, cameraVars, mounted, storeVars, listVars,
                 searchText, dateFrom, dateTo, lastApplied>>

\* clearFilters ("Limpiar", in the filter panel)
ClearFilters(c) ==
  /\ SearchBarVisible(c) /\ showFilters[c]
  /\ searchText' = [searchText EXCEPT ![c] = <<>>]
  /\ dateFrom' = [dateFrom EXCEPT ![c] = <<>>]
  /\ dateTo' = [dateTo EXCEPT ![c] = <<>>]
  /\ showFilters' = [showFilters EXCEPT ![c] = FALSE]
  /\ DismissAlert(c)
  /\ UNCHANGED <<restVars, pricingVars, cameraVars, mounted, storeVars, listVars, lastApplied>>

\* handleSearch ("Buscar", the keyboard's search key, "Aplicar Filtros")
VendedorHandleSearch(c) ==
  /\ SearchBarVisible(c)
  /\ Outstanding < MaxInFlight
  /\ FetchProducts(c, FALSE, CurrentFilter(c), net[c])
  /\ lastApplied' = [lastApplied EXCEPT ![c] = CurrentFilter(c)]
  /\ DismissAlert(c)
  /\ UNCHANGED <<restVars, pricingVars, cameraVars, mounted, storeVars, products, totalProducts,
                 selectedProduct, deleteDialog, staleShown, soldDone,
                 searchText, dateFrom, dateTo, showFilters>>

\* RefreshControl.onRefresh: () => fetchProducts(true)
OnRefresh(c) ==
  /\ ListVisible(c)
  /\ Outstanding < MaxInFlight
  /\ FetchProducts(c, TRUE, CurrentFilter(c), net[c])
  /\ DismissAlert(c)
  /\ UNCHANGED <<restVars, pricingVars, cameraVars, mounted, storeVars, products, totalProducts,
                 selectedProduct, deleteDialog, staleShown, soldDone, filterVars>>

\* a press on a list item: setSelectedProduct(item)
SelectProduct(c, l) ==
  /\ ListVisible(c)
  /\ l \in Listed(c)
  /\ selectedProduct' =
       [selectedProduct EXCEPT ![c] = <<[product_id |-> l, status |-> products[c][l]]>>]
  /\ DismissAlert(c)
  /\ UNCHANGED <<restVars, pricingVars, cameraVars, mounted, storeVars, products, totalProducts,
                 isLoading, isRefreshing, deleteDialog, net, staleShown, soldDone,
                 filterVars>>

\* "Cerrar" / onRequestClose of the detail modal
CloseModal(c) ==
  /\ ModalVisible(c)
  /\ selectedProduct' = [selectedProduct EXCEPT ![c] = <<>>]
  /\ DismissAlert(c)
  /\ UNCHANGED <<restVars, pricingVars, cameraVars, mounted, storeVars, products, totalProducts,
                 isLoading, isRefreshing, deleteDialog, net, staleShown, soldDone,
                 filterVars>>

\* updateProductStatus(productId, status) up to its await: the PATCH is sent
UpdateProductStatus(c, productId, status) ==
  /\ <<productId, status>> \in OfferedTransitions(c)
  /\ Outstanding < MaxInFlight
  /\ net' = [net EXCEPT ![c] = Append(net[c], PatchRequest(productId, status, CurrentFilter(c)))]
  /\ DismissAlert(c)
  /\ UNCHANGED <<restVars, pricingVars, cameraVars, mounted, storeVars, products, totalProducts,
                 selectedProduct, isLoading, isRefreshing, deleteDialog,
                 staleShown, soldDone, filterVars>>

\* deleteProduct(productId): the confirmation prompt
DeleteProduct(c, productId) ==
  /\ productId \in DeleteOffered(c)
  /\ deleteDialog' =
       [deleteDialog EXCEPT ![c] = <<[product |-> productId, filter |-> CurrentFilter(c)]>>]
  /\ DismissAlert(c)
  /\ UNCHANGED <<restVars, pricingVars, cameraVars, mounted, storeVars, products, totalProducts,
                 selectedProduct, isLoading, isRefreshing, net, staleShown, soldDone,
                 filterVars>>

\* the answer to the prompt: "Cancelar", or "Eliminar" (the DELETE is sent)
AnswerDelete(c) ==
  /\ c \in mounted
  /\ PromptOpen(c)
  /\ deleteDialog' = [deleteDialog EXCEPT ![c] = <<>>]
  /\ \/ UNCHANGED net
     \/ /\ Outstanding < MaxInFlight
        /\ net' = [net EXCEPT ![c] =
             Append(net[c], DeleteRequest(deleteDialog[c][1].product, deleteDialog[c][1].filter))]
  /\ DismissAlert(c)
  /\ UNCHANGED <<restVars, pricingVars, cameraVars, mounted, storeVars, products, totalProducts,
                 selectedProduct, isLoading, isRefreshing, staleShown, soldDone,
                 filterVars>>

\* the calls issued before position i that a later list result has overtaken
Overtake(outstanding, i) ==
  [j \in 1..Len(outstanding) |->
     IF j < i /\ outstanding[j].kind = "list"
       THEN [outstanding[j] EXCEPT !.superseded = TRUE]
       ELSE outstanding[j]]

\* the continuation of a call after its await, with the response body
Deliver(c, i) ==
  /\ c \in mounted
  /\ i \in 1..Len(net[c])
  /\ net[c][i].phase = "answered"
  /\ LET req == net[c][i]
         resp == req.resp
         rest == RemoveAt(net[c], i)
     IN  CASE req.kind = "list" ->
                /\ IF resp.result = "success"
                     THEN /\ products' = [products EXCEPT ![c] = resp.products]
                          /\ totalProducts' = [totalProducts EXCEPT ![c] = resp.total]
                          /\ staleShown' = [staleShown EXCEPT ![c] = req.superseded]
                          /\ net' = [net EXCEPT ![c] = RemoveAt(Overtake(net[c], i), i)]
                          /\ UNCHANGED vendAlert
                     ELSE /\ vendAlert' = [vendAlert EXCEPT ![c] =
                                             "No se pudieron cargar los productos"]
                          /\ net' = [net EXCEPT ![c] = rest]
                          /\ UNCHANGED <<products, totalProducts, staleShown>>
                /\ isLoading' = [isLoading EXCEPT ![c] = FALSE]
                /\ isRefreshing' = [isRefreshing EXCEPT ![c] = FALSE]
                /\ UNCHANGED <<selectedProduct, soldDone>>
           [] req.kind = "patch" ->
                /\ IF resp.result = "success"
                     THEN /\ vendAlert' = [vendAlert EXCEPT ![c] = "Exito"]
                          /\ FetchProducts(c, TRUE, req.filter, rest)
                          /\ selectedProduct' = [selectedProduct EXCEPT ![c] = <<>>]
                          /\ soldDone' = [soldDone EXCEPT ![c] =
                               IF req.status = "vendido" THEN @ \cup {req.product} ELSE @]
                     ELSE /\ vendAlert' = [vendAlert EXCEPT ![c] =
                               IF resp.detail # "none" THEN resp.detail
                               ELSE "No se pudo actualizar el estado"]
                          /\ net' = [net EXCEPT ![c] = rest]
                          /\ UNCHANGED <<selectedProduct, isLoading, isRefreshing, soldDone>>
                /\ UNCHANGED <<products, totalProducts, staleShown>>
           [] req.kind = "delete" ->
                /\ IF resp.result = "success"
                     THEN /\ vendAlert' = [vendAlert EXCEPT ![c] = "Eliminado"]
                          /\ FetchProducts(c, TRUE, req.filter, rest)
                          /\ selectedProduct' = [selectedProduct EXCEPT ![c] = <<>>]
                     ELSE /\ vendAlert' = [vendAlert EXCEPT ![c] =
                               IF resp.detail # "none" THEN resp.detail
                               ELSE "No se pudo eliminar"]
                          /\ net' = [net EXCEPT ![c] = rest]
                          /\ UNCHANGED <<selectedProduct, isLoading, isRefreshing>>
                /\ UNCHANGED <<products, totalProducts, staleShown, soldDone>>
  /\ UNCHANGED <<restVars, pricingVars, cameraVars, mounted, storeVars, deleteDialog, filterVars>>

\* fetch rejects (or the body is not JSON): the catch branch of the call
NetworkError(c, i) ==
  /\ c \in mounted
  /\ i \in 1..Len(net[c])
  /\ net' = [net EXCEPT ![c] = RemoveAt(net[c], i)]
  /\ IF net[c][i].kind = "list"
       THEN /\ vendAlert' = [vendAlert EXCEPT ![c] = "Error de conexion con el servidor"]
            /\ isLoading' = [isLoading EXCEPT ![c] = FALSE]
            /\ isRefreshing' = [isRefreshing EXCEPT ![c] = FALSE]
       ELSE /\ vendAlert' = [vendAlert EXCEPT ![c] = "Error de conexion"]
            /\ UNCHANGED <<isLoading, isRefreshing>>
  /\ UNCHANGED <<restVars, pricingVars, cameraVars, mounted, storeVars, products, totalProducts,
                 selectedProduct, deleteDialog, staleShown, soldDone, filterVars>>

\* the screen of every client in `m` right after its mount effect
\* (useEffect(() => { fetchProducts(); }, [])), over a store in state `st`
VendedorInit(m, st) ==
  /\ mounted = m
  /\ store = st
  /\ products = [c \in Clients |-> NoProducts]
  /\ totalProducts = [c \in Clients |-> 0]
  /\ selectedProduct = [c \in Clients |-> <<>>]
  /\ isLoading = [c \in Clients |-> c \in m]
  /\ isRefreshing = [c \in Clients |-> FALSE]
  /\ vendAlert = [c \in Clients |-> "none"]
  /\ deleteDialog = [c \in Clients |-> <<>>]
  /\ net = [c \in Clients |-> IF c \in m THEN <<ListRequest(EmptyFilter, FALSE)>> ELSE <<>>]
  /\ staleShown = [c \in Clients |-> FALSE]
  /\ soldDone = [c \in Clients |-> {}]
  /\ searchText = [c \in Clients |-> <<>>]
  /\ dateFrom = [c \in Clients |-> <<>>]
  /\ dateTo = [c \in Clients |-> <<>>]
  /\ showFilters = [c \in Clients |-> FALSE]
  /\ lastApplied = [c \in Clients |-> EmptyFilter]

NotMounted == VendedorInit({}, [l \in Listings |-> "en_analisis"])

\* the status buttons, the delete flow, the list and the store
StatusNext ==
  \/ \E l \in Listings : ReviewDone(l)
  \/ \E c \in Clients : \E i \in 1..MaxInFlight : ServerAnswer(c, i)
  \/ \E c \in Clients : \E i \in 1..MaxInFlight : ServerError(c, i)
  \/ \E c \in Clients : \E i \in 1..MaxInFlight : Deliver(c, i)
  \/ \E c \in Clients : \E i \in 1..MaxInFlight : NetworkError(c, i)
  \/ \E c \in Clients : OnRefresh(c)
  \/ \E c \in Clients : \E l \in Listings : SelectProduct(c, l)
  \/ \E c \in Clients : CloseModal(c)
  \/ \E c \in Clients : \E l \in Listings : \E st \in Statuses : UpdateProductStatus(c, l, st)
  \/ \E c \in Clients : \E l \in Listings : DeleteProduct(c, l)
  \/ \E c \in Clients : AnswerDelete(c)

\* two clients moving the same listings forward
RaceNext ==
  \/ \E c \in Clients : \E i \in 1..MaxInFlight : ServerAnswer(c, i)
  \/ \E c \in Clients : \E i \in 1..MaxInFlight : Deliver(c, i)
  \/ \E c \in Clients : OnRefresh(c)
  \/ \E c \in Clients : \E l \in Listings : SelectProduct(c, l)
  \/ \E c \in Clients : CloseModal(c)
  \/ \E c \in Clients : \E l \in Listings : \E st \in Statuses : UpdateProductStatus(c, l, st)

\* the search bar, the filters and the list
SearchNext ==
  \/ \E c \in Clients : \E i \in 1..MaxInFlight : ServerAnswer(c, i)
  \/ \E c \in Clients : \E i \in 1..MaxInFlight : Deliver(c, i)
  \/ \E c \in Clients : \E text \in SearchTexts : SetSearchText(c, text)
  \/ \E c \in Clients : \E date \in {<<>>, DateA} : SetDateFrom(c, date)
  \/ \E c \in Clients : \E date \in {<<>>, FreeText} : SetDateTo(c, date)
  \/ \E c \in Clients : ToggleFilters(c)
  \/ \E c \in Clients : ClearFilters(c)
  \/ \E c \in Clients : VendedorHandleSearch(c)
  \/ \E c \in Clients : OnRefresh(c)

(***************************************************************************)
(* VendedorScreen.downloadAllPhotos(photoUrls), one call at a time.        *)
(*   phase     "idle", "permission" (awaiting PermissionsAndroid.request), *)
(*             "loop" (inside the for loop), "done"                        *)
(*   urls      the argument; i the loop variable; successCount             *)
(*   attempted history: the positions (1-based) handed to downloadFile     *)
(*   failed    history: the attempts whose try block threw                 *)
(*   saved     history: the positions whose file was written               *)
(*   requests  history: calls of PermissionsAndroid.request                *)
(*   answer    the answer to the permission request, "none" before it      *)
(*   alert     the last alert of the call                                  *)
(***************************************************************************)
\* the API level the code compares with, and the levels around it
StoragePermissionUntil == 33
AndroidVersions == {StoragePermissionUntil - 1, StoragePermissionUntil}
Platforms ==
  [os : {"android"}, version : AndroidVersions] \cup [os : {"ios"}, version : {0}]

UrlLists == {[j \in 1..n |-> j] : n \in 0..MaxUrls}

\* what Date.now() returns when a batch reads it
Timestamps == {1, 2}

\* the run of downloadAllPhotos: its locals (urls = photoUrls, i, successCount,
\* timestamp) and what it has done (files: the downloads started, each with
\* its fromUrl and the name of its destination file)
IdleBatch ==
  [phase |-> "idle", urls |-> <<>>, i |-> 0, successCount |-> 0, attempted |-> <<>>,
   failed |-> 0, saved |-> {}, requests |-> 0, answer |-> "none", alert |-> "none",
   timestamp |-> 0, files |-> <<>>]

FileNameWithoutIndex(timestamp, i) == <<"wallapop", timestamp, 1>>

\* `wallapop_${timestamp}_${i + 1}.jpg`
BatchFileName(timestamp, i) == <<"wallapop", timestamp, i + 1>>

\* `${API_CONFIG.BASE_URL}${photoUrls[i]}` (i counts from 0)
FullUrl(urls, i) == <<"BASE_URL", urls[i + 1]>>

PermissionNeverBlocks(answer) == FALSE

\* granted !== PermissionsAndroid.RESULTS.GRANTED && Platform.Version < 33
PermissionBlocks(answer) ==
  answer # "granted" /\ platform.version < StoragePermissionUntil

LoopStopsAtFailure(i, ok, n) == IF ok THEN i + 1 ELSE n

\* the for loop: i++ after the body, whose try/catch swallows the failure
LoopAdvance(i, ok, n) == i + 1

\* the "Descargar todas" button: the call up to its first await
DownloadAllPhotos(urls) ==
  /\ batch.phase \in {"idle", "done"}
  /\ IF Len(urls) = 0
       THEN batch' = [IdleBatch EXCEPT !.phase = "done",
                                       !.alert = "No hay fotos para descargar"]
       ELSE IF platform.os = "android"
         THEN batch' = [IdleBatch EXCEPT !.phase = "permission", !.urls = urls,
                                         !.requests = 1]
         ELSE \E now \in Timestamps :
                batch' = [IdleBatch EXCEPT !.phase = "loop", !.urls = urls,
                                           !.alert = "Descargando", !.timestamp = now]
  /\ UNCHANGED <<pricingVars, cameraVars, vendedorVars, appVars, platform, submitVars>>

\* the permission dialog is answered, or the request rejects
PermissionAnswered ==
  /\ batch.phase = "permission"
  /\ \/ \E answer \in {"granted", "denied", "never_ask_again"} :
          IF PermissionBlocks(answer)
            THEN batch' = [batch EXCEPT !.phase = "done", !.answer = answer,
                                        !.alert = "Sin permiso para guardar fotos"]
            ELSE \E now \in Timestamps :
                   batch' = [batch EXCEPT !.phase = "loop", !.answer = answer,
                                          !.alert = "Descargando", !.timestamp = now]
     \/ batch' = [batch EXCEPT !.phase = "done",
                               !.alert = "No se pudieron descargar las fotos"]
  /\ UNCHANGED <<pricingVars, cameraVars, vendedorVars, appVars, platform, submitVars>>

\* one turn of the loop: downloadFile (and scanFile on android) resolve or reject
DownloadOne ==
  /\ batch.phase = "loop"
  /\ batch.i < Len(batch.urls)
  /\ \E downloaded \in BOOLEAN : \E scanned \in BOOLEAN :
       LET ok == downloaded /\ (platform.os = "android" => scanned)
       IN  /\ (platform.os # "android" \/ ~downloaded) => scanned
           /\ batch' = [batch EXCEPT
                 !.attempted = Append(@, batch.i + 1),
                 !.files = Append(@, [fromUrl |-> FullUrl(batch.urls, batch.i),
                                      name |-> BatchFileName(batch.timestamp, batch.i)]),
                 !.saved = IF downloaded THEN @ \cup {batch.i + 1} ELSE @,
                 !.successCount = IF ok THEN @ + 1 ELSE @,
                 !.failed = IF ok THEN @ ELSE @ + 1,
                 !.i = LoopAdvance(batch.i, ok, Len(batch.urls))]
  /\ UNCHANGED <<pricingVars, cameraVars, vendedorVars, appVars, platform, submitVars>>

\* after the loop: the "Descarga completada" alert with successCount
DownloadCompleted ==
  /\ batch.phase = "loop"
  /\ batch.i >= Len(batch.urls)
  /\ batch' = [batch EXCEPT !.phase = "done", !.alert = "Descarga completada"]
  /\ UNCHANGED <<pricingVars, cameraVars, vendedorVars, appVars, platform, submitVars>>

DownloadInit(device) ==
  /\ platform = device
  /\ batch = IdleBatch

DownloadNext ==
  \/ \E urls \in UrlLists : DownloadAllPhotos(urls)
  \/ PermissionAnswered
  \/ DownloadOne
  \/ DownloadCompleted

\* the submit side of a product form nobody has touched
SubmitIdle ==
  /\ defects = <<>>
  /\ isUploading = FALSE
  /\ formAlert = [text |-> "none",
                  outcome |-> [http |-> "pending", success |-> FALSE, detail |-> "none"]]
  /\ submitDialog = <<>>
  /\ upload = <<>>

(***************************************************************************)
(* services/api.ts uploadProduct: the 'files' parts of the form data.      *)
(* An Asset of the picker has optional uri and fileName; the model fixes   *)
(* them per asset id.                                                      *)
(***************************************************************************)
HasUri(asset) == asset # 4
HasFileName(asset) == asset % 2 = 1

\* name: photo.fileName || `photo_${index + 1}.jpg`   (position is index + 1)
FileName(asset, position) ==
  IF HasFileName(asset) THEN <<"fileName", asset>> ELSE <<"photo", position>>

FilePart(asset, position) ==
  [field |-> "files", asset |-> asset, name |-> FileName(asset, position)]

RECURSIVE FilesFromCountingParts(_, _, _)
FilesFromCountingParts(captured, position, sent) ==
  IF position > Len(captured) THEN <<>>
  ELSE IF HasUri(captured[position])
    THEN <<FilePart(captured[position], sent + 1)>>
         \o FilesFromCountingParts(captured, position + 1, sent + 1)
    ELSE FilesFromCountingParts(captured, position + 1, sent)

\* data.photos.forEach((photo, index) => { if (photo.uri) formData.append('files', ...) })
RECURSIVE FilesFrom(_, _, _)
FilesFrom(captured, position, sent) ==
  IF position > Len(captured) THEN <<>>
  ELSE IF HasUri(captured[position])
    THEN <<FilePart(captured[position], position)>>
         \o FilesFrom(captured, position + 1, sent + 1)
    ELSE FilesFrom(captured, position + 1, sent)

(***************************************************************************)
(* ProductFormScreen: handleSubmit, submitProduct and the response of      *)
(* uploadProduct.  An entry of submitDialog is an open "Confirmar" alert   *)
(* with the photos and the defects text of the render that raised it; an   *)
(* entry of upload is a call of uploadProduct with what it sent.           *)
(***************************************************************************)
DefectTexts == {<<>>, <<" ">>, <<"a">>}
NoDefects == <<"N", "i", "n", "g", "u", "n">>

\* what the backend answers, or "none" when no response is received
UploadOutcomes ==
  [http : {"200"}, success : BOOLEAN, detail : {"none", "message"}]
  \cup [http : {"error"}, success : {FALSE}, detail : {"none", "detail"}]
  \cup [http : {"none"}, success : {FALSE}, detail : {"none"}]

NoOutcome == [http |-> "pending", success |-> FALSE, detail |-> "none"]

FormAlert(text, outcome) == [text |-> text, outcome |-> outcome]
NoFormAlert == FormAlert("none", NoOutcome)

\* an alert blocks the form under it; a press under a pending alert is a
\* second press in the render that raised it
FormPressable ==
  /\ currentScreen = "form"
  /\ ~PickerOpen
  /\ \A i \in 1..Len(pending) : pending[i].photos = photos
  /\ \A i \in 1..Len(submitDialog) :
       submitDialog[i] = [photos |-> formPhotos, defects |-> defects]

\* the sequences the capture component hands over: up to maxPhotos photos
\* in capture order, one more on a picker that returns more than it was
\* asked for, and what removals leave of them
PhotoSequences ==
  {[j \in 1..n |-> j] : n \in 0..(MaxPhotos + 1)} \cup {<<2>>, <<4, 6>>}

\* onPhotosChange={setPhotos}, called by the capture component with its new sequence
OnPhotosChange(newPhotos) ==
  /\ FormPressable
  /\ submitDialog = <<>>
  /\ newPhotos # formPhotos
  /\ SetPhotos(newPhotos)
  /\ UNCHANGED <<pricingVars, vendedorVars, restVars, pending, camAlert, nextAsset,
                 pickerHonoursLimit>>

\* onChangeText={setDefects}
SetDefects(text) ==
  /\ FormPressable
  /\ submitDialog = <<>>
  /\ text # defects
  /\ defects' = text
  /\ UNCHANGED <<pricingVars, cameraVars, vendedorVars, appVars, downloadVars,
                 isUploading, formAlert, submitDialog, upload>>

\* the calls of a form that is unmounted: their continuations still run, the
\* state setters of the unmounted component do nothing
Orphaned(calls) == [n \in DOMAIN calls |-> [calls[n] EXCEPT !.mounted = FALSE]]

\* submitProduct of the render that held `captured` and `text`, up to the await
SubmitProduct(captured, text) ==
  /\ isUploading' = TRUE
  /\ upload' = Append(upload,
       [mounted |-> TRUE,
        photos |-> captured,
        files |-> FilesFrom(captured, 1, 0),
        amazon_price |-> amazonPrice,
        defects_description |-> IF Trim(text) # <<>> THEN Trim(text) ELSE NoDefects])

\* handleSubmit ("Preparar para Venta", disabled while isUploading)
HandleSubmit ==
  /\ FormPressable
  /\ ~isUploading
  /\ IF Len(formPhotos) = 0
       THEN /\ formAlert' = FormAlert("Debes anadir al menos una foto del producto", NoOutcome)
            /\ UNCHANGED <<isUploading, submitDialog, upload>>
       ELSE IF Trim(defects) = <<>>
         THEN /\ Len(submitDialog) < MaxPending
              /\ submitDialog' = Append(submitDialog,
                                        [photos |-> formPhotos, defects |-> defects])
              /\ UNCHANGED <<isUploading, formAlert, upload>>
         ELSE /\ Len(upload) < MaxUploads
              /\ SubmitProduct(formPhotos, defects)
              /\ UNCHANGED <<formAlert, submitDialog>>
  /\ UNCHANGED <<pricingVars, cameraVars, vendedorVars, appVars, downloadVars, defects>>

\* the answer to "Confirmar": "Cancelar", or "Continuar" (submitProduct)
AnswerSubmit(i) ==
  /\ currentScreen = "form"
  /\ i \in 1..Len(submitDialog)
  /\ submitDialog' = RemoveAt(submitDialog, i)
  /\ \/ UNCHANGED <<isUploading, upload>>
     \/ /\ Len(upload) < MaxUploads
        /\ SubmitProduct(submitDialog[i].photos, submitDialog[i].defects)
  /\ UNCHANGED <<pricingVars, cameraVars, vendedorVars, appVars, downloadVars, defects, formAlert>>

UploadErrorGeneric(outcome) == "Error del servidor"

\* the message of the Error thrown by the catch block of uploadProduct
UploadErrorMessage(outcome) ==
  IF outcome.http = "error"
    THEN (IF outcome.detail # "none" THEN outcome.detail ELSE "Error del servidor")
    ELSE "No se pudo conectar con el servidor"

\* axios resolves on a 2xx status: uploadProduct returns response.data
UploadResolves(outcome) == outcome.http = "200"

\* the i-th call ends with `outcome`; submitProduct after its await: the
\* alert, then finally setIsUploading(false)
UploadSettled(i, outcome) ==
  /\ i \in 1..Len(upload)
  /\ upload' = RemoveAt(upload, i)
  /\ formAlert' = IF UploadResolves(outcome)
                    THEN FormAlert("Exito", outcome)
                    ELSE FormAlert(UploadErrorMessage(outcome), outcome)
  /\ isUploading' = IF upload[i].mounted THEN FALSE ELSE isUploading
  /\ UNCHANGED <<pricingVars, cameraVars, vendedorVars, appVars, downloadVars, defects, submitDialog>>

\* "Aceptar" of the success alert: onSuccess = App.handleProductSaved; the
\* form and its capture component are unmounted.  The alert is a native
\* dialog: it is raised and answered whatever screen is shown by then
HandleProductSaved ==
  /\ formAlert.text = "Exito"
  /\ productResult' = <<>>
  /\ currentScreen' = "search"
  /\ formAlert' = NoFormAlert
  /\ defects' = <<>>
  /\ isUploading' = FALSE
  /\ submitDialog' = <<>>
  /\ SetPhotos(<<>>)
  /\ pending' = <<>>
  /\ upload' = Orphaned(upload)
  /\ UNCHANGED <<amazonPrice, wallapopPrice, savings, camAlert, nextAsset,
                 pickerHonoursLimit, vendedorVars, appVars, downloadVars>>

\* App.handleBackToSearch ("Atras" in the header of the form, enabled also
\* while a call of uploadProduct is outstanding); the form is unmounted
HandleBackToSearch ==
  /\ currentScreen = "form"
  /\ ~PickerOpen
  /\ pending = <<>>
  /\ submitDialog = <<>>
  /\ currentScreen' = "search"
  /\ SetPhotos(<<>>)
  /\ defects' = <<>>
  /\ isUploading' = FALSE
  /\ upload' = Orphaned(upload)
  /\ UNCHANGED <<productResult, amazonPrice, wallapopPrice, savings, pending, camAlert,
                 nextAsset, pickerHonoursLimit, vendedorVars, appVars, downloadVars,
                 formAlert, submitDialog>>

FormNext ==
  \/ \E newPhotos \in PhotoSequences : OnPhotosChange(newPhotos)
  \/ \E text \in DefectTexts : SetDefects(text)
  \/ HandleSubmit
  \/ \E i \in 1..MaxPending : AnswerSubmit(i)
  \/ \E i \in 1..MaxUploads : \E outcome \in UploadOutcomes : UploadSettled(i, outcome)
  \/ HandleProductSaved

PricingInit ==
  /\ productResult = <<>>
  /\ currentScreen = "search"
  /\ amazonPrice = 0
  /\ wallapopPrice = 0
  /\ savings = 0

PricingNext ==
  \/ HandleSearch
  \/ HandleContinueToForm
  \/ HandleBackToSearch

\* the search bar and its "Limpiar" beside the status buttons of the list
ClearNext ==
  \/ \E c \in Clients : \E i \in 1..MaxInFlight : ServerAnswer(c, i)
  \/ \E c \in Clients : \E i \in 1..MaxInFlight : Deliver(c, i)
  \/ \E c \in Clients : \E text \in SearchTexts \ {<<>>} : SetSearchText(c, text)
  \/ \E c \in Clients : \E date \in {DateA} : SetDateFrom(c, date)
  \/ \E c \in Clients : ToggleFilters(c)
  \/ \E c \in Clients : ClearFilters(c)
  \/ \E c \in Clients : VendedorHandleSearch(c)
  \/ \E c \in Clients : OnRefresh(c)
  \/ \E c \in Clients : \E l \in Listings : \E st \in Statuses : UpdateProductStatus(c, l, st)

(***************************************************************************)
(* App: session restoration, LoginScreen, handleLogin, handleLogout, the   *)
(* health probe.  AsyncStorage runs its calls one after the other in the   *)
(* order they were made; a call that fails is dropped by the `.catch` of   *)
(* its caller.                                                             *)
(***************************************************************************)
\* what the key can hold when a process starts
StoredValues ==
  {NoSession,
   [NoSession EXCEPT !.kind = "unreadable"],
   [NoSession EXCEPT !.kind = "unparseable"],
   StoredSession("none", "ana"),
   StoredSession("operario", "none")}
  \cup {StoredSession(role, user) : role \in Roles, user \in Usernames}

RestorableIfParsed(stored) == stored.kind = "json"

\* getItem resolves to a string, JSON.parse returns, parsed?.role && parsed?.username
Restorable(stored) ==
  stored.kind = "json" /\ stored.role # "none" /\ stored.username # "none"

\* restoreSession (the mount effect), from the answer of getItem to its finally
RestoreSession ==
  /\ isRestoringSession
  /\ IF Restorable(storage)
       THEN /\ userRole' = storage.role
            /\ username' = storage.username
            /\ currentScreen' = "search"
       ELSE UNCHANGED <<userRole, username, currentScreen>>
  /\ isRestoringSession' = FALSE
  /\ UNCHANGED <<productResult, amazonPrice, wallapopPrice, savings, cameraVars,
                 vendedorVars, downloadVars, submitVars, storage, storageOps, login,
                 lastSessionCall, restarts, backendStatus, probe, serverUp>>

\* LoginScreen.handleLogin with both fields filled, up to its await
\* (the button is disabled while isLoading)
LoginPress ==
  /\ ShownScreen = "login"
  /\ login = "idle"
  /\ login' = "sent"
  /\ UNCHANGED <<pricingVars, cameraVars, vendedorVars, downloadVars, submitVars,
                 userRole, username, isRestoringSession, storage, storageOps,
                 lastSessionCall, restarts, backendStatus, probe, serverUp>>

\* App.handleLogin(role, user)
HandleLogin(role, user) ==
  /\ userRole' = role
  /\ username' = user
  /\ currentScreen' = "search"
  /\ storageOps' = Append(storageOps, [op |-> "setItem", value |-> StoredSession(role, user)])
  /\ lastSessionCall' = "login"

\* LoginScreen.handleLogin after its await: response.ok && data.success calls
\* onLoginSuccess, anything else raises an alert
LoginAnswered ==
  /\ login = "sent"
  /\ login' = "idle"
  /\ \/ /\ serverUp
        /\ Len(storageOps) < MaxStorageOps
        /\ \E role \in Roles : \E user \in Usernames : HandleLogin(role, user)
     \/ UNCHANGED <<userRole, username, currentScreen, storageOps, lastSessionCall>>
  /\ UNCHANGED <<productResult, amazonPrice, wallapopPrice, savings, cameraVars,
                 vendedorVars, downloadVars, submitVars, isRestoringSession, storage,
                 restarts, backendStatus, probe, serverUp>>

\* App.handleLogout ("Cerrar sesion" in the menu of the search screen and of
\* the management screen)
HandleLogout ==
  /\ ShownScreen \in {"search", "vendedor"}
  /\ Len(storageOps) < MaxStorageOps
  /\ userRole' = "none"
  /\ username' = "none"
  /\ productResult' = <<>>
  /\ currentScreen' = "login"
  /\ storageOps' = Append(storageOps, [op |-> "removeItem", value |-> NoSession])
  /\ lastSessionCall' = "logout"
  /\ UNCHANGED <<amazonPrice, wallapopPrice, savings, cameraVars, vendedorVars,
                 downloadVars, submitVars, isRestoringSession, storage, login,
                 restarts, backendStatus, probe, serverUp>>

\* the oldest AsyncStorage call completes, or fails and is swallowed
StorageCompletes ==
  /\ storageOps # <<>>
  /\ storageOps' = Tail(storageOps)
  /\ \/ storage' = Head(storageOps).value
     \/ UNCHANGED storage
  /\ UNCHANGED <<pricingVars, cameraVars, vendedorVars, downloadVars, submitVars,
                 userRole, username, isRestoringSession, login, lastSessionCall,
                 restarts, backendStatus, probe, serverUp>>

\* the process ends and starts again: the state of App and of its screens is
\* the initial one, what is persisted stays
RestartApp ==
  /\ restarts < MaxRestarts
  /\ storageOps = <<>>
  /\ restarts' = restarts + 1
  /\ currentScreen' = "login"
  /\ userRole' = "none"
  /\ username' = "none"
  /\ isRestoringSession' = TRUE
  /\ productResult' = <<>>
  /\ login' = "idle"
  /\ backendStatus' = "checking"
  /\ probe' = "sent"
  /\ SetPhotos(<<>>)
  /\ pending' = <<>>
  /\ defects' = <<>>
  /\ isUploading' = FALSE
  /\ formAlert' = NoFormAlert
  /\ submitDialog' = <<>>
  /\ upload' = <<>>
  /\ UNCHANGED <<amazonPrice, wallapopPrice, savings, camAlert, nextAsset,
                 pickerHonoursLimit, vendedorVars, downloadVars, storage, storageOps,
                 lastSessionCall, serverUp>>

\* checkBackendHealth (the mount effect) after its await: checkHealth gives
\* true on a 200 within its timeout, false otherwise
ProbeAnswered ==
  /\ probe = "sent"
  /\ probe' = "done"
  /\ \E isHealthy \in BOOLEAN :
       /\ isHealthy => serverUp
       /\ backendStatus' = IF isHealthy THEN "online" ELSE "offline"
  /\ UNCHANGED <<pricingVars, cameraVars, vendedorVars, downloadVars, submitVars,
                 userRole, username, isRestoringSession, storage, storageOps, login,
                 lastSessionCall, restarts, serverUp>>

\* the backend goes down or comes back
ServerChanges ==
  /\ serverUp' = ~serverUp
  /\ UNCHANGED <<pricingVars, cameraVars, vendedorVars, downloadVars, submitVars,
                 userRole, username, isRestoringSession, storage, storageOps, login,
                 lastSessionCall, restarts, backendStatus, probe>>

\* App right after its first render and its two mount effects
AppStarted(stored, up) ==
  /\ productResult = <<>>
  /\ currentScreen = "login"
  /\ amazonPrice = 0
  /\ wallapopPrice = 0
  /\ savings = 0
  /\ userRole = "none"
  /\ username = "none"
  /\ isRestoringSession = TRUE
  /\ storage = stored
  /\ storageOps = <<>>
  /\ login = "idle"
  /\ lastSessionCall = "none"
  /\ restarts = 0
  /\ backendStatus = "checking"
  /\ probe = "sent"
  /\ serverUp = up

SessionNext ==
  \/ RestoreSession
  \/ LoginPress
  \/ LoginAnswered
  \/ HandleLogout
  \/ StorageCompletes
  \/ RestartApp
  \/ ProbeAnswered
  \/ ServerChanges

\* the operator's flow on top of the session: one product found (without a
\* price), one photo, the defects field left empty, an upload that succeeds
\* or gets no response
OperatorNext ==
  \/ SessionNext
  \/ HandleSearchAmong({[hasPrice |-> FALSE, price |-> 0]})
  \/ HandleContinueToForm
  \/ HandleBackToSearch
  \/ OnPhotosChange(<<1>>)
  \/ HandleSubmit
  \/ \E i \in 1..MaxPending : AnswerSubmit(i)
  \/ \E i \in 1..MaxUploads :
       \/ UploadSettled(i, [http |-> "200", success |-> TRUE, detail |-> "none"])
       \/ UploadSettled(i, [http |-> "none", success |-> FALSE, detail |-> "none"])
  \/ HandleProductSaved

(***************************************************************************)
(* Specifications                                                          *)
(***************************************************************************)
\* the operator's path from a search result into the product form
InitPricing ==
  /\ PricingInit
  /\ CameraInit
  /\ pickerHonoursLimit
  /\ NotMounted
  /\ DownloadInit([os |-> "android", version |-> StoragePermissionUntil])
  /\ SubmitIdle
  /\ SessionOf("operario")

SpecPricing == InitPricing /\ [][PricingNext]_vars

\* the capture component of a mounted product form
FormMounted ==
  /\ productResult = <<[hasPrice |-> TRUE, price |-> 109900]>>
  /\ currentScreen = "form"
  /\ amazonPrice = 109900
  /\ wallapopPrice = calculateWallapopPrice(109900)
  /\ savings = 10 * 109900 - calculateWallapopPrice(109900)

InitCamera ==
  /\ FormMounted
  /\ CameraInit
  /\ NotMounted
  /\ DownloadInit([os |-> "android", version |-> StoragePermissionUntil])
  /\ SubmitIdle
  /\ SessionOf("operario")

SpecCamera == InitCamera /\ [][CameraNext]_vars

\* one management client over the store, the filters left empty
InitStatus ==
  /\ PricingInit
  /\ CameraInit
  /\ pickerHonoursLimit
  /\ \E st \in [Listings -> Statuses] : VendedorInit({"c1"}, st)
  /\ DownloadInit([os |-> "android", version |-> StoragePermissionUntil])
  /\ SubmitIdle
  /\ SessionOf("vendedor")

SpecStatus == InitStatus /\ [][StatusNext]_vars

\* the management screen where every response that has arrived is handed to
\* the continuation that awaits it; nothing in the code bounds how long a
\* `fetch` waits for its response
SpecStatusLive ==
  /\ InitStatus /\ [][StatusNext]_vars
  /\ WF_vars(\E c \in Clients : \E i \in 1..MaxInFlight : Deliver(c, i))

\* two management clients over one store
InitRace ==
  /\ PricingInit
  /\ CameraInit
  /\ pickerHonoursLimit
  /\ \E st \in [Listings -> Statuses] : VendedorInit(Clients, st)
  /\ DownloadInit([os |-> "android", version |-> StoragePermissionUntil])
  /\ SubmitIdle
  /\ SessionOf("vendedor")

SpecRace == InitRace /\ [][RaceNext]_vars

\* one management client searching and filtering
InitSearch ==
  /\ PricingInit
  /\ CameraInit
  /\ pickerHonoursLimit
  /\ VendedorInit({"c1"}, [l \in Listings |-> "publicado"])
  /\ DownloadInit([os |-> "android", version |-> StoragePermissionUntil])
  /\ SubmitIdle
  /\ SessionOf("vendedor")

SpecSearch == InitSearch /\ [][SearchNext]_vars

\* one management client that searches, clears and marks listings sold
InitClear ==
  /\ PricingInit
  /\ CameraInit
  /\ pickerHonoursLimit
  /\ VendedorInit({"c1"}, [l \in Listings |-> "publicado"])
  /\ DownloadInit([os |-> "android", version |-> StoragePermissionUntil])
  /\ SubmitIdle
  /\ SessionOf("vendedor")

SpecClear == InitClear /\ [][ClearNext]_vars

\* a management client downloading the photos of a listing
InitDownload ==
  /\ PricingInit
  /\ CameraInit
  /\ pickerHonoursLimit
  /\ VendedorInit({"c1"}, [l \in Listings |-> "publicado"])
  /\ \E device \in Platforms : DownloadInit(device)
  /\ SubmitIdle
  /\ SessionOf("vendedor")

SpecDownload == InitDownload /\ [][DownloadNext]_vars

\* an operator filling and submitting the product form
InitForm ==
  /\ FormMounted
  /\ CameraInit
  /\ ~pickerHonoursLimit
  /\ NotMounted
  /\ DownloadInit([os |-> "android", version |-> StoragePermissionUntil])
  /\ SubmitIdle
  /\ SessionOf("operario")

SpecForm == InitForm /\ [][FormNext]_vars

\* the app from the start of its process: restoration, login, logout, restart
InitSession ==
  /\ CameraInit
  /\ pickerHonoursLimit
  /\ NotMounted
  /\ DownloadInit([os |-> "android", version |-> StoragePermissionUntil])
  /\ SubmitIdle
  /\ \E stored \in StoredValues : \E up \in BOOLEAN : AppStarted(stored, up)

SpecSession == InitSession /\ [][SessionNext]_vars

\* the app from the start of its process, with the operator's screens
SpecOperator == InitSession /\ [][OperatorNext]_vars

\* every awaited call settles: getItem, the probe, /auth/login, setItem and
\* removeItem
SpecSessionLive ==
  /\ InitSession /\ [][SessionNext]_vars
  /\ WF_vars(RestoreSession) /\ WF_vars(ProbeAnswered)
  /\ WF_vars(LoginAnswered) /\ WF_vars(StorageCompletes)

C2_OffersFollowDisplayedStatus ==
  \A c \in Clients :
    /\ \A o \in QuickActions(c) :
         /\ ListVisible(c)
         /\ o[2] = "vendido" /\ products[c][o[1]] = "publicado"
    /\ \A o \in ModalActions(c) :
         /\ ModalVisible(c)
         /\ o[1] = selectedProduct[c][1].product_id
         /\ \/ o[2] = "publicado" /\ selectedProduct[c][1].status = "revisado"
            \/ o[2] = "vendido" /\ selectedProduct[c][1].status = "publicado"
    /\ \A l \in Listings :
         (ListVisible(c) /\ products[c][l] \in {"en_analisis", "vendido"})
            => \A st \in Statuses : <<l, st>> \notin OfferedTransitions(c)
    /\ (ModalVisible(c) /\ selectedProduct[c][1].status \in {"en_analisis", "vendido"})
         => OfferedTransitions(c) = {}

C2_Witness ==
  \E c \in Clients :
    /\ ModalVisible(c)
    /\ selectedProduct[c][1].status = "revisado"
    /\ OfferedTransitions(c) = {<<selectedProduct[c][1].product_id, "publicado">>}
    /\ store[selectedProduct[c][1].product_id] = "revisado"

(***************************************************************************)
(* C3: a status update is applied only when its target is the immediate    *)
(* successor of the status the store holds (en_analisis -> revisado ->     *)
(* publicado -> vendido); every other update is answered with a rejection  *)
(* and leaves the status as it is.                                         *)
(***************************************************************************)
C3_OnlySuccessorApplied ==
  [][ \A c \in Clients : \A i \in 1..Len(net[c]) :
        ( /\ net[c][i].kind = "patch"
          /\ net[c][i].phase = "sent"
          /\ Len(net'[c]) = Len(net[c])
          /\ net'[c][i].phase = "answered" )
        =>
        LET req == net[c][i]
            current == store[req.product]
            successor == CASE current = "en_analisis" -> "revisado"
                           [] current = "revisado" -> "publicado"
                           [] current = "publicado" -> "vendido"
                           [] OTHER -> "none"
        IN  IF req.status = successor
              THEN net'[c][i].resp.result = "success" => store'[req.product] = req.status
              ELSE /\ net'[c][i].resp.result = "failure"
                   /\ store'[req.product] = current
    ]_vars

(***************************************************************************)
(* C4: once the store holds vendido for a listing, no client operation     *)
(* other than a delete changes that status, a transition issued by a       *)
(* second client from its older copy of the listing included.              *)
(***************************************************************************)
C4_SoldIsFinal ==
  [][ \A l \in Listings :
        store[l] = "vendido" => store'[l] \in {"vendido", "deleted"} ]_vars

(***************************************************************************)
(* C5: after a client's update to vendido has succeeded, its screen does   *)
(* not offer "mark as sold" for that listing any more, whether the         *)
(* follow-up refresh is in flight, has failed or has arrived, and a later  *)
(* update of that listing is rejected.                                     *)
(***************************************************************************)
C5_NoSoldOfferAfterSold ==
  [][ \A c \in Clients :
        /\ \A l \in soldDone'[c] : <<l, "vendido">> \notin OfferedTransitions(c)'
        /\ \A i \in 1..Len(net[c]) :
             ( /\ net[c][i].kind = "patch"
               /\ net[c][i].product \in soldDone[c]
               /\ net[c][i].phase = "sent"
               /\ Len(net'[c]) = Len(net[c])
               /\ net'[c][i].phase = "answered" )
             => net'[c][i].resp.result = "failure"
    ]_vars

C7_RefreshUsesAppliedSearch ==
  [][ \A c \in Clients :
        LET n == Len(net'[c])
            issued == /\ n > 0
                      /\ \/ net'[c] = Append(net[c], net'[c][n])
                         \/ \E i \in 1..Len(net[c]) :
                              /\ net[c][i].kind \in {"patch", "delete"}
                              /\ net[c][i].phase = "answered"
                              /\ net'[c] = Append(RemoveAt(net[c], i), net'[c][n])
                      /\ net'[c][n].kind = "list"
                      /\ net'[c][n].phase = "sent"
                      /\ net'[c][n].refresh
        IN  issued => net'[c][n].url = BuildUrl(lastApplied'[c])
    ]_vars

(***************************************************************************)
(* C8: when two list requests are outstanding together, the list and the   *)
(* total on display in the end are those of the request issued later: the  *)
(* response of the older request never replaces the newer one's result.    *)
(***************************************************************************)
C8_LaterRequestWins ==
  \A c \in Clients : ~staleShown[c]

(***************************************************************************)
(* C9: in every reachable state of the capture component the captured      *)
(* photo sequence, and the copy handed to the product form, hold at most   *)
(* maxPhotos entries.                                                      *)
(***************************************************************************)
C9_AtMostMaxPhotos ==
  /\ Len(photos) <= MaxPhotos
  /\ Len(formPhotos) <= MaxPhotos

(***************************************************************************)
(* C10: a step that adds k photos while r = maxPhotos - Len(photos) slots  *)
(* remain appends exactly the first min(k, r) of them, in order, and       *)
(* raises the "limit reached" alert when k > r; at full capacity no picker *)
(* opens and the sequence stays as it is.                                  *)
(***************************************************************************)
C10_AddUpToCapacity ==
  [][ LET k == nextAsset' - nextAsset
          r == MaxPhotos - Len(photos)
          m == IF k < r THEN k ELSE r
          PickersOpen(p) ==
            Cardinality({i \in 1..Len(p) : p[i].kind \in {"camera", "gallery"}})
      IN  /\ k > 0 =>
               /\ photos' = photos \o [j \in 1..m |-> nextAsset + j - 1]
               /\ k > r => camAlert' = "Limite alcanzado"
          /\ r <= 0 =>
               /\ PickersOpen(pending') <= PickersOpen(pending)
               /\ k > 0 => photos' = photos
    ]_vars

(***************************************************************************)
(* C11: downloadAllPhotos hands every url of its list to the download, in  *)
(* the order of the list, whatever happened to the earlier ones, and the   *)
(* count of successes it reports plus the count of failed items is the     *)
(* length of the list.                                                     *)
(***************************************************************************)
C11_EveryUrlAttempted ==
  /\ batch.attempted = [j \in 1..batch.i |-> j]
  /\ batch.successCount + batch.failed = batch.i
  /\ batch.alert = "Descarga completada" =>
       /\ batch.attempted = [j \in 1..Len(batch.urls) |-> j]
       /\ batch.successCount + batch.failed = Len(batch.urls)

C11_Witness ==
  /\ batch.alert = "Descarga completada"
  /\ Len(batch.urls) >= 2
  /\ 1 \notin batch.saved
  /\ Len(batch.urls) \in batch.saved
  /\ batch.failed >= 1
  /\ batch.successCount >= 1

(***************************************************************************)
(* C12: a denied storage permission leaves every photo of the batch        *)
(* undownloaded, and the permission is asked once per batch, before the    *)
(* first download.  C12_DeniedAbortsBatch states it for every device,      *)
(* C12_DeniedAbortsBelow33 for what the code compares: the answer counts   *)
(* on Android below API level 33 only, and only Android is asked.          *)
(***************************************************************************)
C12_DeniedAbortsBatch ==
  /\ batch.answer \in {"denied", "never_ask_again"} =>
       batch.attempted = <<>> /\ batch.saved = {}
  /\ batch.requests <= 1
  /\ batch.attempted # <<>> => batch.requests = 1

C12_DeniedAbortsBelow33 ==
  /\ ( /\ batch.answer \in {"denied", "never_ask_again"}
       /\ platform.version < StoragePermissionUntil )
     => /\ batch.attempted = <<>> /\ batch.saved = {}
        /\ batch.phase = "done"
        /\ batch.alert = "Sin permiso para guardar fotos"
  /\ batch.requests <= 1
  /\ (batch.attempted # <<>> /\ platform.os = "android") =>
        batch.requests = 1 /\ batch.answer # "none"
  /\ platform.os # "android" => batch.requests = 0

C12_Witness ==
  /\ platform.os = "android"
  /\ platform.version < StoragePermissionUntil
  /\ batch.answer = "denied"
  /\ batch.urls # <<>>
  /\ batch.requests = 1
  /\ batch.phase = "done"
  /\ batch.attempted = <<>>

(***************************************************************************)
(* C13: uploadProduct sends one 'files' part per photo of the form, in the *)
(* order of the photos, the part of the photo at 0-based position i named  *)
(* photo_{i+1}.  C13_OnePartPerPhoto states it for every photo;            *)
(* C13_PartsFollowPhotos states what holds of every call: one part per     *)
(* photo that has a uri, in the order of the photos, named by the photo's  *)
(* own fileName when it has one and photo_{i+1} otherwise.                 *)
(***************************************************************************)
C13_OnePartPerPhoto ==
  \A n \in 1..Len(upload) :
    LET u == upload[n]
    IN  /\ Len(u.files) = Len(u.photos)
        /\ \A k \in 1..Len(u.files) :
             /\ u.files[k].field = "files"
             /\ k <= Len(u.photos) => u.files[k].asset = u.photos[k]
             /\ u.files[k].name = <<"photo", k>>

C13_PartsFollowPhotos ==
  \A n \in 1..Len(upload) :
    LET u == upload[n]
        withUri == SelectSeq(u.photos, HasUri)
    IN  /\ Len(u.files) = Len(withUri)
        /\ \A k \in 1..Len(u.files) :
             /\ u.files[k].field = "files"
             /\ u.files[k].asset = withUri[k]
             /\ IF HasFileName(withUri[k])
                  THEN u.files[k].name = <<"fileName", withUri[k]>>
                  ELSE \E position \in 1..Len(u.photos) :
                         /\ u.photos[position] = withUri[k]
                         /\ u.files[k].name = <<"photo", position>>

C13_Witness ==
  \E n \in 1..Len(upload) :
    /\ upload[n].photos = [j \in 1..MaxPhotos |-> j]
    /\ Len(upload[n].files) = MaxPhotos - 1
    /\ upload[n].files[1].name = <<"fileName", 1>>
    /\ upload[n].files[2].name = <<"photo", 2>>
    /\ upload[n].files[MaxPhotos - 1].name = <<"photo", MaxPhotos>>

(***************************************************************************)
(* C14: a response with status 200 whose body says success = false is      *)
(* shown to the operator as a failure, with the server's message when it   *)
(* has one; the success alert is not raised and the form is not left.      *)
(***************************************************************************)
C14_RejectionIsFailure ==
  [][ /\ (formAlert'.outcome.http = "200" /\ ~formAlert'.outcome.success) =>
           /\ formAlert'.text # "Exito"
           /\ formAlert'.outcome.detail # "none" =>
                formAlert'.text = formAlert'.outcome.detail
      /\ (formAlert.outcome.http = "200" /\ ~formAlert.outcome.success) =>
           currentScreen' = currentScreen
    ]_vars

(***************************************************************************)
(* C15: when the response of a status update or of a confirmed delete      *)
(* reaches the screen with success, the same step issues a new list        *)
(* request and clears the selected listing; when it reaches the screen as  *)
(* a failure, or the connection fails, no list request is issued and the   *)
(* selected listing stays.                                                 *)
(***************************************************************************)
C15_SuccessRefetches ==
  [][ \A c \in Clients : \A i \in 1..Len(net[c]) :
        LET req == net[c][i]
            rest == RemoveAt(net[c], i)
            n == Len(net'[c])
            settled == /\ req.kind \in {"patch", "delete"}
                       /\ net'[c] # net[c]
                       /\ \/ net'[c] = rest
                          \/ /\ n = Len(rest) + 1
                             /\ SubSeq(net'[c], 1, Len(rest)) = rest
                             /\ [net'[c][n] EXCEPT !.phase = req.phase, !.resp = req.resp] # req
            noConnection == vendAlert'[c] = "Error de conexion"
            succeeded == /\ settled /\ ~noConnection
                         /\ req.phase = "answered" /\ req.resp.result = "success"
            failed == /\ settled
                      /\ \/ noConnection
                         \/ req.phase = "answered" /\ req.resp.result = "failure"
        IN  /\ succeeded =>
                 /\ n = Len(rest) + 1
                 /\ net'[c][n].kind = "list"
                 /\ net'[c][n].phase = "sent"
                 /\ selectedProduct'[c] = <<>>
            /\ failed =>
                 /\ net'[c] = rest
                 /\ selectedProduct'[c] = selectedProduct[c]
    ]_vars

C15_Witness ==
  \E c \in Clients :
    /\ vendAlert[c] = "Eliminado"
    /\ selectedProduct[c] = <<>>
    /\ deleteDialog[c] = <<>>
    /\ \E i \in 1..Len(net[c]) : net[c][i].kind = "list" /\ net[c][i].refresh
    /\ \A l \in Listings : store[l] = "deleted"


(***************************************************************************)
(* C16: a status update that reaches the store after its listing was       *)
(* deleted is answered with a failure, the not-found error unless the      *)
(* server itself fails, and leaves the listing deleted; when the not-found *)
(* answer reaches the screen, the error is shown, and the list on display  *)
(* and the selected listing stay as they were.                             *)
(***************************************************************************)
C16_UpdateOfDeletedFails ==
  [][ /\ \A l \in Listings : store[l] = "deleted" => store'[l] = "deleted"
      /\ \A c \in Clients : \A i \in 1..Len(net[c]) :
           LET req == net[c][i]
               served == /\ req.kind = "patch" /\ req.phase = "sent"
                         /\ store[req.product] = "deleted"
                         /\ Len(net'[c]) = Len(net[c])
                         /\ net'[c] = [net[c] EXCEPT ![i] = Answered(req, net'[c][i].resp)]
               shown == /\ req.kind = "patch" /\ req.phase = "answered"
                        /\ req.resp.detail = "not_found"
                        /\ net'[c] = RemoveAt(net[c], i)
                        /\ vendAlert'[c] # "Error de conexion"
               serverError == net'[c][i].resp.detail = "none"
           IN  /\ served => /\ net'[c][i].resp.result = "failure"
                            /\ ~serverError => net'[c][i].resp.detail = "not_found"
               /\ shown => /\ vendAlert'[c] = "not_found"
                           /\ products'[c] = products[c]
                           /\ totalProducts'[c] = totalProducts[c]
                           /\ selectedProduct'[c] = selectedProduct[c]
    ]_vars

C16_Witness ==
  \E c \in Clients :
    /\ vendAlert[c] = "not_found"
    /\ \E l \in Listings : store[l] = "deleted" /\ products[c][l] = "publicado"
    /\ \A i \in 1..Len(net[c]) : net[c][i].kind # "delete"
    /\ soldDone[c] = {}


(***************************************************************************)
(* C17: every listing on display, in the list or in the detail modal,      *)
(* offers its delete action whatever its status; a DELETE request is sent  *)
(* only by the "Eliminar" answer to the prompt raised for that listing;    *)
(* the "Cancelar" answer sends nothing and leaves the store, the list, the *)
(* selected listing, the flags and the filters as they were.               *)
(***************************************************************************)
C17_DeleteOnlyAfterConfirm ==
  [][ \A c \in Clients :
        LET deletes(outstanding) ==
              Cardinality({i \in 1..Len(outstanding) : outstanding[i].kind = "delete"
                                                        /\ outstanding[i].phase = "sent"})
            n == Len(net'[c])
            sent == deletes(net'[c]) > deletes(net[c])
            cancelled == PromptOpen(c) /\ deleteDialog'[c] = <<>> /\ ~sent
        IN  /\ (ListVisible(c) => Listed(c) \subseteq DeleteOffered(c))
            /\ (ModalVisible(c) => selectedProduct[c][1].product_id \in DeleteOffered(c))
            /\ sent => /\ PromptOpen(c)
                       /\ deleteDialog'[c] = <<>>
                       /\ net'[c] = Append(net[c], net'[c][n])
                       /\ net'[c][n].kind = "delete"
                       /\ net'[c][n].product = deleteDialog[c][1].product
            /\ cancelled => /\ net' = net
                            /\ UNCHANGED <<mounted, store, products, totalProducts,
                                           selectedProduct, isLoading, isRefreshing,
                                           staleShown, soldDone, filterVars>>
    ]_vars

C17_Witness ==
  \E c \in Clients : \E i \in 1..Len(net[c]) :
    /\ net[c][i].kind = "delete"
    /\ net[c][i].phase = "sent"
    /\ products[c][net[c][i].product] = "vendido"
    /\ deleteDialog[c] = <<>>


(***************************************************************************)
(* C18: a source product whose price is negative or unavailable never      *)
(* gets a resale price: the form, which derives the resale price and the   *)
(* savings when it renders and submits the source price, is not reached    *)
(* with such a product.                                                    *)
(***************************************************************************)
C18_InvalidPriceRejected ==
  (productResult # <<>> /\ (~productResult[1].hasPrice \/ productResult[1].price < 0))
    => currentScreen # "form"


(***************************************************************************)
(* C19: removePhoto(i) pressed on a sequence of n photos raises the        *)
(* confirmation and changes nothing; its "Eliminar" answer sets the        *)
(* sequence to the n-1 other photos of that sequence in their order (those *)
(* after position i one position lower) and hands the same sequence to the *)
(* form; its "Cancelar" answer leaves the sequence and the form's copy as  *)
(* they are.                                                               *)
(***************************************************************************)
C19_RemoveKeepsOthersInOrder ==
  [][ /\ (Len(pending') > Len(pending) /\ pending'[Len(pending')].kind = "remove") =>
           /\ pending'[Len(pending')].photos = photos
           /\ pending'[Len(pending')].index \in 1..Len(photos)
           /\ photos' = photos /\ formPhotos' = formPhotos
      /\ \A d \in 1..Len(pending) :
           (pending[d].kind = "remove" /\ pending' = RemoveAt(pending, d)) =>
             LET of == pending[d].photos
                 i == pending[d].index
                 n == Len(of)
             IN  \/ photos' = photos /\ formPhotos' = formPhotos
                 \/ /\ Len(photos') = n - 1
                    /\ \A k \in 1..(n - 1) : photos'[k] = IF k < i THEN of[k] ELSE of[k + 1]
                    /\ formPhotos' = photos'
    ]_vars

C19_Witness ==
  /\ photos = <<1, 3>>
  /\ formPhotos = <<1, 3>>
  /\ pending = <<>>
  /\ nextAsset = 4


(***************************************************************************)
(* C20: the form calls uploadProduct only with at least one and at most    *)
(* maxPhotos photos; a submit without photos sends nothing and raises an   *)
(* error; a submit with an empty defects text sends only through the       *)
(* confirmation.                                                           *)
(***************************************************************************)
C20_SubmitGuards ==
  [][ /\ (Len(upload') > Len(upload)) =>
           LET sent == upload'[Len(upload')]
           IN  /\ Len(sent.photos) >= 1
               /\ Len(sent.photos) <= MaxPhotos
               /\ sent.defects_description = NoDefects =>
                    Len(submitDialog') < Len(submitDialog)
      /\ (formPhotos = <<>> /\ formAlert' # formAlert /\ upload' = upload
            /\ formPhotos' = formPhotos /\ currentScreen' = currentScreen) =>
           formAlert'.text = "Debes anadir al menos una foto del producto"
    ]_vars

C25_OneUploadAtATime ==
  /\ Len(upload) <= 1
  /\ isUploading <=> Len(upload) > 0

(***************************************************************************)
(* C24: a confirmed removal takes out of the sequence on display exactly   *)
(* the photo that was at the chosen position when the removal was          *)
(* requested, whatever was added or removed in between: every other photo  *)
(* stays, and no photo comes back.                                         *)
(***************************************************************************)
C24_RemovesExactlyChosen ==
  [][ \A d \in 1..Len(pending) :
        (/\ pending[d].kind = "remove"
         /\ pending' = RemoveAt(pending, d)
         /\ photos' # photos) =>
          LET chosen == pending[d].photos[pending[d].index]
              Others(asset) == asset # chosen
          IN  /\ photos' = SelectSeq(photos, Others)
              /\ formPhotos' = photos'
    ]_vars

(***************************************************************************)
(* C29: the files of one batch are named from the one timestamp the batch  *)
(* read and from the 1-based position of the photo, so no two files of the *)
(* batch share a name, and the file of position i + 1 is fetched from the  *)
(* base url followed by photoUrls[i].                                      *)
(***************************************************************************)
C29_BatchFileNames ==
  /\ \A k \in 1..Len(batch.files) :
       /\ batch.files[k].name = <<"wallapop", batch.timestamp, k>>
       /\ batch.files[k].fromUrl = <<"BASE_URL", batch.urls[k]>>
  /\ \A k \in 1..Len(batch.files) : \A m \in 1..Len(batch.files) :
       k # m => batch.files[k].name # batch.files[m].name

C29_Witness ==
  /\ batch.alert = "Descarga completada"
  /\ Len(batch.files) = MaxUrls
  /\ batch.timestamp = 2
  /\ batch.failed >= 1

(***************************************************************************)
(* C30: clearFilters empties searchText, dateFrom and dateTo, sends no     *)
(* list request and leaves the list and the total on display as they are;  *)
(* from then on, while the three fields are empty, every list request the  *)
(* screen builds is limit=50 alone, as for the default filter.             *)
(***************************************************************************)
C30_ClearFiltersResets ==
  [][ \A c \in Clients :
        LET n == Len(net'[c])
            cleared == /\ searchText[c] # <<>> \/ dateFrom[c] # <<>> \/ dateTo[c] # <<>>
                       /\ searchText'[c] = <<>> /\ dateFrom'[c] = <<>> /\ dateTo'[c] = <<>>
            issued == /\ n > 0
                      /\ \/ net'[c] = Append(net[c], net'[c][n])
                         \/ \E i \in 1..Len(net[c]) :
                              /\ net[c][i].kind \in {"patch", "delete"}
                              /\ net[c][i].phase = "answered"
                              /\ net'[c] = Append(RemoveAt(net[c], i), net'[c][n])
                      /\ net'[c][n].kind = "list"
                      /\ net'[c][n].phase = "sent"
            empty == searchText[c] = <<>> /\ dateFrom[c] = <<>> /\ dateTo[c] = <<>>
        IN  /\ cleared => /\ net'[c] = net[c]
                          /\ products'[c] = products[c]
                          /\ totalProducts'[c] = totalProducts[c]
            /\ (issued /\ empty) => net'[c][n].url = LimitParam
    ]_vars

(***************************************************************************)
(* C22: restoreSession always finishes, that is isRestoringSession becomes *)
(* false; and when the persisted value is missing, cannot be read, cannot  *)
(* be parsed, or lacks a role or a username, it finishes on the login      *)
(* screen with no role set.                                                *)
(***************************************************************************)
C22_RestorationFinishes ==
  /\ [][ ( /\ isRestoringSession
           /\ ~isRestoringSession'
           /\ \/ storage.kind # "json"
              \/ storage.role = "none"
              \/ storage.username = "none" ) =>
         (ShownScreen' = "login" /\ userRole' = "none") ]_vars
  /\ (isRestoringSession ~> ~isRestoringSession)

C22_Witness ==
  /\ ~isRestoringSession
  /\ storage.kind = "unparseable"
  /\ ShownScreen = "login"
  /\ userRole = "none"
  /\ restarts = 0
  /\ lastSessionCall = "none"

(***************************************************************************)
(* C23: once handleLogout was the last session call, the restoration of    *)
(* the next process start finds no session: it ends on the login screen    *)
(* with no role, whatever the order of the login and logout calls and      *)
(* whether or not a storage write or removal failed.                       *)
(***************************************************************************)
C23_LogoutForgetsSession ==
  [][ (isRestoringSession /\ ~isRestoringSession' /\ lastSessionCall = "logout") =>
        (ShownScreen' = "login" /\ userRole' = "none") ]_vars

(***************************************************************************)
(* C27: once the health probe has failed and backendStatus is offline, a   *)
(* backend that is reachable again is noticed: backendStatus becomes       *)
(* online (and the text search is enabled) or the backend goes away again. *)
(***************************************************************************)
C27_OfflineRecovers ==
  (backendStatus = "offline" /\ serverUp) ~> (SearchEnabled \/ ~serverUp)

(***************************************************************************)
(* C28: once restoration has finished, a screen other than the login       *)
(* screen is shown only with a role and a username set; the role is        *)
(* operario or vendedor; a vendedor is shown the management screen and     *)
(* never the operator's search or form; an operario is never shown the     *)
(* management screen.                                                      *)
(***************************************************************************)
C28_ScreensFollowRole ==
  ~isRestoringSession =>
    /\ ShownScreen # "login" => (userRole # "none" /\ username # "none")
    /\ userRole \in Roles \cup {"none"}
    /\ userRole = "vendedor" => ShownScreen = "vendedor"
    /\ userRole = "operario" => ShownScreen \in {"search", "form"}

(***************************************************************************)
(* C26: every call of the management screen ends, with its response or as  *)
(* a failure after a bounded wait, so isLoading and isRefreshing are false *)
(* again some time after every fetchProducts.                              *)
(***************************************************************************)
C26_LoadingEnds ==
  \A c \in Clients :
    (isLoading[c] \/ isRefreshing[c]) ~> (~isLoading[c] /\ ~isRefreshing[c])

====
